---- MODULE Spec2Model ----
(***************************************************************************)
(* A model of the Kaleidoscope front end: lexer.py (Lexer), parser.py      *)
(* (Parser, the syntax tree classes) and codegen.py (IRGenerator).         *)
(*                                                                         *)
(* Characters are one-character strings, a character stream is a sequence  *)
(* of them, and fp.read(1) at the end of the stream yields "".  Words and  *)
(* names are strings built with \o, as the code builds them with +=.       *)
(* Exceptions are modelled as results: every operator that models a method *)
(* returns a record whose exc field is "" on a normal return and the       *)
(* exception otherwise.                                                    *)
(***************************************************************************)
EXTENDS Integers, Sequences, FiniteSets, TLC

VARIABLES
    pc,            \* where the caller of the component under study stands
    input,         \* the text handed to the character stream fp
    lexer,         \* Lexer: [fp, last_char, current_token]
    returned,      \* the values Lexer.next_token returned, oldest first
    parsed,        \* the last value a parsing method produced
    error,         \* the exception that ended the last call, "" if none
    generator,     \* IRGenerator: [module, builder]
    anon_counter,  \* Function.anon_counter (a class attribute)
    anon_made,     \* the names create_anonymous has given so far, oldest first
    last,          \* the last IRGenerator.generate call and its outcome
    history        \* what the driver did, oldest first

vars == <<pc, input, lexer, returned, parsed, error, generator, anon_counter,
          anon_made, last, history>>

(***************************************************************************)
(* Characters (str.isspace, str.isalpha, str.isdigit, str.isalnum on the   *)
(* ASCII characters the inputs are drawn from).                            *)
(***************************************************************************)
SpaceChars == {" ", "\t", "\n", "\r"}

AlphaChars == {"a", "b", "c", "d", "e", "f", "g", "h", "i", "j", "k", "l", "m",
               "n", "o", "p", "q", "r", "s", "t", "u", "v", "w", "x", "y", "z"}

DigitChars == {"0", "1", "2", "3", "4", "5", "6", "7", "8", "9"}

AlnumChars == AlphaChars \cup DigitChars

PunctChars == {"(", ")", ",", ":", ";", "<", "+", "-", "*", "#", ".", "_", "="}

AllChars == SpaceChars \cup AlnumChars \cup PunctChars

\* lambda x: x not in ["\n", "\r", ""]  (lexer.py:64)
CommentChars == AllChars \ {"\n", "\r"}

(***************************************************************************)
(* Tokens.  A generic token carries a value; the others carry the name of  *)
(* their type.  NoToken is Python's None, the initial current_token.       *)
(***************************************************************************)
NoToken == [type |-> "None", value |-> "None"]

Token(token_type, value) ==
    IF token_type \in {"NUMBER", "IDENTIFIER", "OP"}
    THEN [type |-> token_type, value |-> value]
    ELSE [type |-> token_type, value |-> token_type]

Lexer(chars) == [fp |-> chars, current_token |-> NoToken, last_char |-> " "]

\* self.last_char = self.fp.read(n), with n = 1
_eat(L) ==
    IF L.fp = <<>>
    THEN [L EXCEPT !.last_char = ""]
    ELSE [L EXCEPT !.last_char = Head(L.fp), !.fp = Tail(L.fp)]

RECURSIVE _read_while(_, _, _)
\* The characters of `accept` stand for the predicate; "" is in none of them.
_read_while(L, accept, word) ==
    IF L.last_char \in accept
    THEN _read_while(_eat(L), accept, word \o L.last_char)
    ELSE [L |-> L, word |-> word]

RECURSIVE StripLeadingZeros(_)
StripLeadingZeros(ds) ==
    IF Len(ds) > 1 /\ Head(ds) = "0" THEN StripLeadingZeros(Tail(ds)) ELSE ds

RECURSIVE StripTrailingZeros(_)
StripTrailingZeros(ds) ==
    IF Len(ds) > 1 /\ ds[Len(ds)] = "0"
    THEN StripTrailingZeros(SubSeq(ds, 1, Len(ds) - 1))
    ELSE ds

RECURSIVE Join(_)
Join(cs) == IF cs = <<>> THEN "" ELSE Head(cs) \o Join(Tail(cs))

\* float(word) for a word of digits with at most one ".", given as the digits
\* before and after the point: the value, written as Python writes a float
\* ("3" and "3." and "03.0" are all 3.0).  The word "." is no number.
FloatOf(int_digits, frac_digits) ==
    Join(StripLeadingZeros(IF int_digits = <<>> THEN <<"0">> ELSE int_digits))
        \o "." \o
    Join(StripTrailingZeros(IF frac_digits = <<>> THEN <<"0">> ELSE frac_digits))

RECURSIVE DigitRun(_)
\* The maximal run of digits at the head of a stream, as a sequence.
DigitRun(chars) ==
    IF chars # <<>> /\ Head(chars) \in DigitChars
    THEN <<Head(chars)>> \o DigitRun(Tail(chars))
    ELSE <<>>

\* The characters still unread, the pending one first.
Pending(L) == IF L.last_char = "" THEN <<>> ELSE <<L.last_char>> \o L.fp

\* The statement "x = value" followed by the statements Rest(x).  The value is
\* handed over as an argument, which TLC evaluates once however often Rest
\* reads it.
Let(value, Rest(_)) == Rest(value)

\* self.current_token = tok; return self.current_token
Produce(L, tok) ==
    [L |-> [L EXCEPT !.current_token = tok], exc |-> "", tok |-> tok]

\* self.current_token = Token(TokenType.NUMBER, float(word)) for the word of the
\* digits ints, a "." if there was one, and the digits fracs.
ReadNumber(L, ints, fracs) ==
    IF ints = <<>> /\ fracs = <<>>
    THEN [L |-> L, exc |-> "ValueError", tok |-> NoToken]
    ELSE Produce(L, Token("NUMBER", FloatOf(ints, fracs)))

\* Lexer.next_token: [L, exc, tok], tok being the value returned.
LexerNextToken(L0) ==
    Let(_read_while(L0, SpaceChars, "").L, LAMBDA L :
        IF L.last_char \in AlphaChars THEN
            Let(_read_while(L, AlnumChars, ""), LAMBDA r :
                Produce(r.L, IF r.word = "def" THEN Token("DEF", "")
                             ELSE IF r.word = "extern" THEN Token("EXTERN", "")
                             ELSE Token("IDENTIFIER", r.word)))
        ELSE IF L.last_char \in DigitChars \/ L.last_char = "." THEN
            Let(_read_while(L, DigitChars, ""), LAMBDA r1 :
                IF r1.L.last_char = "."
                THEN Let(_eat(r1.L), LAMBDA L2 :
                         ReadNumber(_read_while(L2, DigitChars, r1.word \o ".").L,
                                    DigitRun(Pending(L)), DigitRun(Pending(L2))))
                ELSE ReadNumber(r1.L, DigitRun(Pending(L)), <<>>))
        ELSE IF L.last_char = "#" THEN
            Let(_eat(_read_while(L, CommentChars, "").L), LAMBDA L1 :
                [L |-> L1, exc |-> "", tok |-> L1.current_token])
        ELSE IF L.last_char = "" THEN Produce(L, Token("EOF", ""))
        ELSE Produce(_eat(L), Token("OP", L.last_char)))

(***************************************************************************)
(* The syntax tree (parser.py:6-80).                                       *)
(***************************************************************************)
NoNode == [type |-> "None"]

NumebrExpr(value) == [type |-> "NumebrExpr", value |-> value]

VariableExpr(var_name) == [type |-> "VariableExpr", var_name |-> var_name]

BinaryOpExpr(op, lhs, rhs) ==
    [type |-> "BinaryOpExpr", op |-> op, lhs |-> lhs, rhs |-> rhs]

CallExpr(callee, args) == [type |-> "CallExpr", callee |-> callee, args |-> args]

Prototype(name, args) == [type |-> "Prototype", name |-> name, args |-> args]

Function(proto, body) == [type |-> "Function", proto |-> proto, body |-> body]

RECURSIVE Decimal(_)
\* str(n) for n >= 0, as the f-string of create_anonymous formats the counter.
Decimal(n) ==
    LET digit == <<"0", "1", "2", "3", "4", "5", "6", "7", "8", "9">>[(n % 10) + 1]
    IN  IF n < 10 THEN digit ELSE Decimal(n \div 10) \o digit

\* A mutant of create_anonymous: the counter is left as it was.
create_anonymousNoIncrement(counter, body) ==
    [fn |-> Function(Prototype("_anon" \o Decimal(counter), <<>>), body),
     anon_counter |-> counter]

\* Function.create_anonymous: the wrapper and the counter after the call.
create_anonymous(counter, body) ==
    [fn |-> Function(Prototype("_anon" \o Decimal(counter), <<>>), body),
     anon_counter |-> counter + 1]

(***************************************************************************)
(* The parser.  Its only state is its lexer, whose current_token is the    *)
(* parser's cur_tok.  A parsing method maps the lexer state to             *)
(* [L, exc, val]: the lexer state it leaves, the exception it raised (""   *)
(* if it returned) and the value it returned.                              *)
(***************************************************************************)
binop_precedence == ("<" :> 10) @@ ("+" :> 20) @@ ("-" :> 30) @@ ("*" :> 40)

Raise(L, exc) == [L |-> L, exc |-> exc, val |-> NoNode]

Return(L, val) == [L |-> L, exc |-> "", val |-> val]

\* self.cur_tok.value == c for a punctuation character c: only an OP token
\* carries such a value.
CurTokIs(L, c) == L.current_token.type = "OP" /\ L.current_token.value = c

cur_tok_precedence(L) ==
    IF L.current_token.type # "OP" THEN -1
    ELSE IF L.current_token.value \in DOMAIN binop_precedence
         THEN binop_precedence[L.current_token.value]
    ELSE -1

\* A call followed by the rest of the method, Rest(call): an exception the call
\* raised ends the method with that exception.
Try(call, Rest(_)) == IF call.exc # "" THEN call ELSE Rest(call)

\* Parser.next_token; the ValueError of a malformed number passes through.
ParserNextToken(L) ==
    Let(LexerNextToken(L), LAMBDA r : [L |-> r.L, exc |-> r.exc, val |-> NoNode])

RECURSIVE _parse_expr(_)
RECURSIVE _parse_primary(_)
RECURSIVE _parse_bin_op_rhs(_, _, _)
RECURSIVE ParseCallArgs(_, _)

_parse_numberexpr(L) ==
    Let(NumebrExpr(L.current_token.value), LAMBDA expr :
    Try(ParserNextToken(L), LAMBDA t :
        Return(t.L, expr)))

_parse_parenexpr(L) ==
    Try(ParserNextToken(L), LAMBDA t :
    Try(_parse_expr(t.L), LAMBDA e :
        IF ~CurTokIs(e.L, ")") THEN Raise(e.L, "ParseError")
        ELSE Try(ParserNextToken(e.L), LAMBDA u :
                 Return(u.L, e.val))))

\* The while True loop of _parse_identifier_expr (parser.py:152-158), entered
\* with the arguments parsed so far; it leaves cur_tok on the closing ")".
ParseCallArgs(L, args) ==
    Try(_parse_expr(L), LAMBDA e :
        IF CurTokIs(e.L, ")") THEN Return(e.L, Append(args, e.val))
        ELSE IF ~CurTokIs(e.L, ",") THEN Raise(e.L, "ParseError")
        ELSE Try(ParserNextToken(e.L), LAMBDA t :
                 ParseCallArgs(t.L, Append(args, e.val))))

_parse_identifier_expr(L) ==
    Let(L.current_token.value, LAMBDA identifier_name :
    Try(ParserNextToken(L), LAMBDA t :
        IF ~CurTokIs(t.L, "(") THEN Return(t.L, VariableExpr(identifier_name))
        ELSE Try(ParserNextToken(t.L), LAMBDA u :
             Try(IF CurTokIs(u.L, ")") THEN Return(u.L, <<>>)
                 ELSE ParseCallArgs(u.L, <<>>), LAMBDA a :
             Try(ParserNextToken(a.L), LAMBDA v :
                 Return(v.L, CallExpr(identifier_name, a.val)))))))

_parse_primary(L) ==
    IF L.current_token = NoToken THEN Raise(L, "AttributeError")
    ELSE IF L.current_token.type = "NUMBER" THEN _parse_numberexpr(L)
    ELSE IF L.current_token.type = "IDENTIFIER" THEN _parse_identifier_expr(L)
    ELSE IF CurTokIs(L, "(") THEN _parse_parenexpr(L)
    ELSE Raise(L, "ParseError")

\* The comparison of parser.py:200, which sends the right operand through
\* _parse_bin_op_rhs first.
BindsTighter(op_precedence, next_precedence) == op_precedence < next_precedence

\* A mutant of RhsMinPrecedence: the operator's own precedence is the threshold.
RhsMinPrecedenceSame(op_precedence) == op_precedence

\* The threshold of the recursive call of parser.py:206.
RhsMinPrecedence(op_precedence) == op_precedence + 1

\* One round of the while True loop and, by the last call, the rounds after it.
_parse_bin_op_rhs(L, lhs, min_precedence) ==
    Let(cur_tok_precedence(L), LAMBDA op_precedence :
        IF op_precedence < min_precedence THEN Return(L, lhs)
        ELSE Let(L.current_token.value, LAMBDA bin_op :
             Try(ParserNextToken(L), LAMBDA t :
             Try(_parse_primary(t.L), LAMBDA p :
             Try(IF BindsTighter(op_precedence, cur_tok_precedence(p.L))
                 THEN _parse_bin_op_rhs(p.L, p.val, RhsMinPrecedence(op_precedence))
                 ELSE p, LAMBDA rhs :
                 _parse_bin_op_rhs(rhs.L, BinaryOpExpr(bin_op, lhs, rhs.val),
                                   min_precedence))))))

_parse_expr(L) ==
    Try(_parse_primary(L), LAMBDA lhs : _parse_bin_op_rhs(lhs.L, lhs.val, 0))

RECURSIVE ParsePrototypeArgs(_, _)
\* The while loop of _parse_prototype (parser.py:223-229), entered with the
\* parameters read so far; val is the parameter list when the loop ends.
ParsePrototypeArgs(L, args) ==
    Try(ParserNextToken(L), LAMBDA t :
        IF t.L.current_token = NoToken THEN Raise(t.L, "AttributeError")
        ELSE IF t.L.current_token.type # "IDENTIFIER" THEN Return(t.L, args)
        ELSE Try(ParserNextToken(t.L), LAMBDA u :
                 IF CurTokIs(u.L, ")")
                 THEN Return(u.L, Append(args, t.L.current_token.value))
                 ELSE IF ~CurTokIs(u.L, ",") THEN Raise(u.L, "ParseError")
                 ELSE ParsePrototypeArgs(u.L, Append(args, t.L.current_token.value))))

_parse_prototype(L) ==
    IF L.current_token = NoToken THEN Raise(L, "AttributeError")
    ELSE IF L.current_token.type # "IDENTIFIER" THEN Raise(L, "ParseError")
    ELSE Let(L.current_token.value, LAMBDA id_name :
         Try(ParserNextToken(L), LAMBDA t :
             IF ~CurTokIs(t.L, "(") THEN Raise(t.L, "ParseError")
             ELSE Try(ParsePrototypeArgs(t.L, <<>>), LAMBDA a :
                      IF ~CurTokIs(a.L, ")") THEN Raise(a.L, "ParseError")
                      ELSE Try(ParserNextToken(a.L), LAMBDA u :
                               Return(u.L, Prototype(id_name, a.val))))))

_parse_definition(L) ==
    Try(ParserNextToken(L), LAMBDA t :
    Try(_parse_prototype(t.L), LAMBDA proto :
        IF ~CurTokIs(proto.L, ":") THEN Raise(proto.L, "ParseError")
        ELSE Try(ParserNextToken(proto.L), LAMBDA u :
             Try(_parse_expr(u.L), LAMBDA body :
                 Return(body.L, Function(proto.val, body.val))))))

_parse_extern(L) ==
    Try(ParserNextToken(L), LAMBDA t : _parse_prototype(t.L))

\* The counter a parsing method leaves, next to what it returned or raised.
WithCounter(r, counter) ==
    [L |-> r.L, exc |-> r.exc, val |-> r.val, anon_counter |-> counter]

\* _parse_top_level_expr, given Function.anon_counter: the result also carries
\* the counter the call leaves (create_anonymous is reached only when
\* _parse_expr returned).
_parse_top_level_expr(L, counter) ==
    Let(_parse_expr(L), LAMBDA body :
        IF body.exc # "" THEN WithCounter(body, counter)
        ELSE Let(create_anonymous(counter, body.val), LAMBDA a :
                 WithCounter(Return(body.L, a.fn), a.anon_counter)))

(***************************************************************************)
(* The lowering pass, IRGenerator, over the llvmlite module it fills.      *)
(* The module is the sequence of its functions in the order they were      *)
(* added; a function is [name, args, blocks], args being the names of its  *)
(* arguments and blocks its basic blocks, each a sequence of instructions. *)
(* A function is referred to by its index in the module, and the builder   *)
(* stands at the end of the last block of the function it names (0 before  *)
(* the first position_at_end).  generate maps the generator G, a node and  *)
(* the lookup dictionary to [G, exc, val].  The parameter names of a       *)
(* prototype are taken to be distinct, so the names llvmlite gives the     *)
(* arguments are the names written.  generate is entered with a Prototype  *)
(* or a Function, as Parser.parse enters it; expressions are reached only  *)
(* from the Function branch, after the builder was positioned.             *)
(***************************************************************************)
IRGenerator == [module |-> <<>>, builder |-> 0]

EmptyLookup == [name \in {} |-> NoNode]

GenRaise(G, exc) == [G |-> G, exc |-> exc, val |-> NoNode]

GenReturn(G, val) == [G |-> G, exc |-> "", val |-> val]

\* A mutant of search_functions: the number of arguments is not compared.
search_functionsByNameOnly(G, name, num_args) ==
    LET hits == {i \in 1..Len(G.module) : G.module[i].name = name}
    IN  IF hits = {} THEN 0 ELSE CHOOSE i \in hits : \A j \in hits : i <= j

search_functions(G, name, num_args) ==
    LET hits == {i \in 1..Len(G.module) :
                    G.module[i].name = name /\ Len(G.module[i].args) = num_args}
    IN  IF hits = {} THEN 0 ELSE CHOOSE i \in hits : \A j \in hits : i <= j

\* IRBuilder inserting an instruction at its position: the generator after it
\* and the value that names the instruction's result.
Emit(G, instr) ==
    LET fn == G.builder
        n == Len(G.module[fn].blocks)
    IN  [G |-> [G EXCEPT !.module[fn].blocks[n] = Append(@, instr)],
         val |-> [kind |-> "instr", fn |-> fn, block |-> n,
                  index |-> Len(G.module[fn].blocks[n]) + 1]]

RECURSIVE generate(_, _, _)
RECURSIVE GenerateArgs(_, _, _, _)

\* codegen.py:24-28
GenVariableExpr(G, node, lookup) ==
    IF node.var_name \in DOMAIN lookup
    THEN GenReturn(G, lookup[node.var_name])
    ELSE GenRaise(G, "CodegenError: Undefined variable")

\* codegen.py:29-30
GenNumebrExpr(G, node, lookup) ==
    GenReturn(G, [kind |-> "const", value |-> node.value])

\* The value of a binary instruction on the two lowered operands.
EmitBinary(rhs, op, lhs_val) ==
    Let(Emit(rhs.G, [op |-> op, lhs |-> lhs_val, rhs |-> rhs.val]), LAMBDA e :
        GenReturn(e.G, e.val))

\* codegen.py:31-44
GenBinaryOpExpr(G, node, lookup) ==
    Try(generate(G, node.lhs, lookup), LAMBDA lhs :
    Try(generate(lhs.G, node.rhs, lookup), LAMBDA rhs :
        IF node.op = "+" THEN EmitBinary(rhs, "fadd", lhs.val)
        ELSE IF node.op = "-" THEN EmitBinary(rhs, "fsub", lhs.val)
        ELSE IF node.op = "<"
             THEN Let(Emit(rhs.G, [op |-> "fcmp_unordered <", lhs |-> lhs.val,
                                   rhs |-> rhs.val]), LAMBDA tmp :
                  Let(Emit(tmp.G, [op |-> "uitofp", value |-> tmp.val]), LAMBDA e :
                      GenReturn(e.G, e.val)))
        ELSE IF node.op = "*" THEN EmitBinary(rhs, "fmul", lhs.val)
        ELSE \* the CodegenError is returned, not raised
             GenReturn(rhs.G, [kind |-> "CodegenError",
                               value |-> "Invalid binary operation"])))

\* The exception the CallExpr branch ends with when search_functions found
\* nothing (codegen.py:47-48).  The message of the CodegenError it is about to
\* return reads node.name, and a CallExpr has the attributes callee and args
\* only (parser.py:45-47): building the message raises AttributeError, and no
\* CodegenError is made.
UnknownCalleeOutcome(G, node) == GenRaise(G, "AttributeError")

\* The for loop of codegen.py:50-51 from the i-th argument on.
GenerateArgs(G, node_args, lookup, args) ==
    IF Len(args) = Len(node_args) THEN GenReturn(G, args)
    ELSE Try(generate(G, node_args[Len(args) + 1], lookup), LAMBDA a :
             GenerateArgs(a.G, node_args, lookup, Append(args, a.val)))

\* codegen.py:45-52
GenCallExpr(G, node, lookup) ==
    Let(search_functions(G, node.callee, Len(node.args)), LAMBDA fn :
        IF fn = 0 THEN UnknownCalleeOutcome(G, node)
        ELSE Try(GenerateArgs(G, node.args, lookup, <<>>), LAMBDA args :
             Let(Emit(args.G, [op |-> "call", callee |-> G.module[fn].name,
                               args |-> args.val]), LAMBDA e :
                 GenReturn(e.G, e.val))))

\* codegen.py:53-59.  llvmlite keeps the globals of a module by name and
\* refuses a second one of a name in use (DuplicatedNameError), whatever its
\* type; the module is then as it was.
GenPrototype(G, node, lookup) ==
    IF \E i \in 1..Len(G.module) : G.module[i].name = node.name
    THEN GenRaise(G, "DuplicatedNameError")
    ELSE GenReturn([G EXCEPT !.module = Append(@, [name |-> node.name,
                                                   args |-> node.args,
                                                   blocks |-> <<>>])],
                   Len(G.module) + 1)

\* lookup_add of codegen.py:68: the names of the arguments of the function the
\* registry holds, each bound to that argument.
LookupAdd(G, fn) ==
    [name \in {G.module[fn].args[i] : i \in 1..Len(G.module[fn].args)} |->
        [kind |-> "arg", fn |-> fn, name |-> name]]

\* A mutant of HasBlocks: a function counts as defined only from its second
\* block on.
HasBlocksMoreThanOne(fn) == Len(fn.blocks) > 1

\* len(fn.blocks) > 0 (codegen.py:64)
HasBlocks(fn) == Len(fn.blocks) > 0

\* A mutant of BodyRaised: the module is put back as it was before the body.
BodyRaisedRolledBack(G0, ret) == GenRaise(G0, ret.exc)

\* The exception of the body passes through the Function branch
\* (codegen.py:69): the generator stays as the body left it.  G0 is the
\* generator when the Function branch was entered.
BodyRaised(G0, ret) == ret

\* fn.append_basic_block(); self.builder.position_at_end(bb) (codegen.py:66-67)
AppendBasicBlock(G, fn) ==
    [G EXCEPT !.module[fn].blocks = Append(@, <<>>), !.builder = fn]

\* codegen.py:60-71
GenFunction(G, node, lookup) ==
    Let(search_functions(G, node.proto.name, Len(node.proto.args)), LAMBDA found :
    Try(IF found = 0 THEN generate(G, node.proto, lookup)
        ELSE GenReturn(G, found), LAMBDA p :
        IF HasBlocks(p.G.module[p.val])
        THEN GenRaise(p.G, "CodegenError: Cannot redefine function")
        ELSE Let(AppendBasicBlock(p.G, p.val), LAMBDA G1 :
             Let(generate(G1, node.body, LookupAdd(G1, p.val) @@ lookup), LAMBDA ret :
                 IF ret.exc # "" THEN BodyRaised(G, ret)
                 ELSE GenReturn(Emit(ret.G, [op |-> "ret", value |-> ret.val]).G,
                                p.val)))))

\* IRGenerator.generate
generate(G, node, lookup) ==
    IF node.type = "VariableExpr" THEN GenVariableExpr(G, node, lookup)
    ELSE IF node.type = "NumebrExpr" THEN GenNumebrExpr(G, node, lookup)
    ELSE IF node.type = "BinaryOpExpr" THEN GenBinaryOpExpr(G, node, lookup)
    ELSE IF node.type = "CallExpr" THEN GenCallExpr(G, node, lookup)
    ELSE IF node.type = "Prototype" THEN GenPrototype(G, node, lookup)
    ELSE IF node.type = "Function" THEN GenFunction(G, node, lookup)
    ELSE GenReturn(G, NoNode)

(***************************************************************************)
(* The tokenizer on its own: a caller that calls Lexer.next_token until it *)
(* returns EOF (lexer.py main) or raises.                                  *)
(***************************************************************************)
MaxLexLen == 4

LexAlphabet == {"3", "a", "#", "\n", " ", "+", "."}

RECURSIVE SeqsUpTo(_, _)
\* The sequences over S of length at most n.
SeqsUpTo(S, n) ==
    IF n = 0 THEN {<<>>}
    ELSE LET shorter == SeqsUpTo(S, n - 1)
         IN  shorter \cup {Append(s, x) : s \in {t \in shorter : Len(t) = n - 1}, x \in S}

NoCall == [node |-> NoNode, exc |-> "", before |-> IRGenerator]

InitLexer ==
    /\ input \in SeqsUpTo(LexAlphabet, MaxLexLen)
    /\ lexer = Lexer(input)
    /\ returned = <<>>
    /\ pc = "lexing"
    /\ parsed = NoNode
    /\ error = ""
    /\ generator = IRGenerator
    /\ anon_counter = 0
    /\ anon_made = <<>>
    /\ last = NoCall
    /\ history = <<>>

\* tok = l.next_token(), until tok.type == TokenType.EOF
CallNextToken ==
    /\ pc = "lexing"
    /\ \E r \in {LexerNextToken(lexer)} :
           /\ lexer' = r.L
           /\ error' = r.exc
           /\ returned' = IF r.exc = "" THEN Append(returned, r.tok) ELSE returned
           /\ pc' = IF r.exc # "" THEN "raised"
                    ELSE IF r.tok.type = "EOF" THEN "eof" ELSE "lexing"
    /\ UNCHANGED <<input, parsed, generator, anon_counter, anon_made, last,
                   history>>

NextLexer == CallNextToken

SpecLexer == InitLexer /\ [][NextLexer]_vars

RECURSIVE StripComments(_, _)
\* The text without its comments: each "#" and what follows it on its line.
StripComments(chars, in_comment) ==
    IF chars = <<>> THEN <<>>
    ELSE IF Head(chars) \in {"\n", "\r"}
         THEN <<Head(chars)>> \o StripComments(Tail(chars), FALSE)
    ELSE IF in_comment \/ Head(chars) = "#"
         THEN StripComments(Tail(chars), TRUE)
    ELSE <<Head(chars)>> \o StripComments(Tail(chars), FALSE)

RECURSIVE LexRun(_, _)
\* What a caller that calls next_token until EOF is handed, from state L on.
LexRun(L, toks) ==
    LET r == LexerNextToken(L)
    IN  IF r.exc # "" THEN [toks |-> toks, exc |-> r.exc]
        ELSE IF r.tok.type = "EOF" THEN [toks |-> Append(toks, r.tok), exc |-> ""]
        ELSE LexRun(r.L, Append(toks, r.tok))

\* C1: a comment produces no token: the tokens handed out for an input are those
\* handed out for the input without its comments, none of them is missing (None),
\* and a comment line followed by 3 gives Number 3.0 and then EndOfInput.
C1_CommentProducesNoToken ==
    pc \in {"eof", "raised"} =>
        /\ [toks |-> returned, exc |-> error]
              = LexRun(Lexer(StripComments(input, FALSE)), <<>>)
        /\ \A i \in 1..Len(returned) : returned[i] # NoToken
        /\ input = <<"#", "a", "\n", "3">> =>
              returned = <<Token("NUMBER", "3.0"), Token("EOF", "")>>

(***************************************************************************)
(* The parser's methods on their own: a caller that builds a Parser on a   *)
(* text, reads the first token (as Parser.parse does at parser.py:265) and *)
(* calls one parsing method.                                                *)
(***************************************************************************)
MaxOps == 4

MaxProtoItems == 3

Operands == <<"a", "b", "c", "d", "e", "f", "g", "h">>

RECURSIVE ExprText(_, _)
\* The operands a, b, c, ... joined by the operators ops, the i-th operand first.
ExprText(ops, i) ==
    IF ops = <<>> THEN <<Operands[i]>>
    ELSE <<Operands[i], Head(ops)>> \o ExprText(Tail(ops), i + 1)

ExprInputs == {ExprText(ops, 1) : ops \in SeqsUpTo(DOMAIN binop_precedence, MaxOps)}

RECURSIVE Spaced(_)
Spaced(items) ==
    IF items = <<>> THEN <<>> ELSE <<Head(items), " ">> \o Spaced(Tail(items))

\* f( item item ... ) for items that are parameter names, commas or operators.
ProtoText(items) == <<"f", "(">> \o Spaced(items) \o <<")">>

ProtoInputs ==
    {ProtoText(items) : items \in SeqsUpTo({"x", "y", ",", "+"}, MaxProtoItems)}

InitParser ==
    /\ \/ pc = "expr" /\ input \in ExprInputs
       \/ pc = "proto" /\ input \in ProtoInputs
    /\ lexer = Lexer(input)
    /\ returned = <<>>
    /\ parsed = NoNode
    /\ error = ""
    /\ generator = IRGenerator
    /\ anon_counter = 0
    /\ anon_made = <<>>
    /\ last = NoCall
    /\ history = <<>>

\* p.next_token(); p._parse_expr()
ParseExprCall ==
    /\ pc = "expr"
    /\ \E r \in {Try(ParserNextToken(lexer), LAMBDA t : _parse_expr(t.L))} :
           /\ lexer' = r.L
           /\ parsed' = r.val
           /\ error' = r.exc
    /\ pc' = "expr_done"
    /\ UNCHANGED <<input, returned, generator, anon_counter, anon_made, last,
                   history>>

\* p.next_token(); p._parse_prototype()
ParsePrototypeCall ==
    /\ pc = "proto"
    /\ \E r \in {Try(ParserNextToken(lexer), LAMBDA t : _parse_prototype(t.L))} :
           /\ lexer' = r.L
           /\ parsed' = r.val
           /\ error' = r.exc
    /\ pc' = "proto_done"
    /\ UNCHANGED <<input, returned, generator, anon_counter, anon_made, last,
                   history>>

NextParser == ParseExprCall \/ ParsePrototypeCall

SpecParser == InitParser /\ [][NextParser]_vars

\* The items written between the parentheses of a prototype text.
ProtoItems(text) ==
    SelectSeq(SubSeq(text, 3, Len(text) - 1), LAMBDA c : c # " ")

\* C2: the parameters of a prototype are a bare run of identifiers up to ")":
\* f(x y) gives Prototype(f, [x, y]), and a parameter list holding anything else
\* (a comma included) is a ParseError.
C2_PrototypeParametersBareRun ==
    pc = "proto_done" =>
        LET items == ProtoItems(input)
        IN  IF \A i \in 1..Len(items) : items[i] \in AlphaChars
            THEN error = "" /\ parsed = Prototype("f", items)
            ELSE error = "ParseError"

RECURSIVE InOrder(_)
\* The operands and operators of a tree, left to right.
InOrder(e) ==
    IF e.type = "BinaryOpExpr" THEN InOrder(e.lhs) \o <<e.op>> \o InOrder(e.rhs)
    ELSE IF e.type = "VariableExpr" THEN <<e.var_name>>
    ELSE <<e>>

RECURSIVE WellGrouped(_)
\* Every right child that is a BinaryOp binds strictly tighter than its parent,
\* every left child that is a BinaryOp binds at least as tight.
WellGrouped(e) ==
    e.type = "BinaryOpExpr" =>
        /\ e.op \in DOMAIN binop_precedence
        /\ e.rhs.type = "BinaryOpExpr" =>
               binop_precedence[e.rhs.op] > binop_precedence[e.op]
        /\ e.lhs.type = "BinaryOpExpr" =>
               binop_precedence[e.lhs.op] >= binop_precedence[e.op]
        /\ WellGrouped(e.lhs)
        /\ WellGrouped(e.rhs)

\* C5: for primaries joined by <, +, -, * without parentheses, _parse_expr
\* returns the tree that keeps the operands in textual order, whose right
\* children bind strictly tighter than their parent and whose left children bind
\* at least as tight, under < = 10, + = 20, - = 30, * = 40.
C5_PrecedenceClimbing ==
    pc = "expr_done" =>
        /\ error = ""
        /\ InOrder(parsed) = input
        /\ WellGrouped(parsed)
        /\ binop_precedence = [op \in {"<", "+", "-", "*"} |->
               CASE op = "<" -> 10 [] op = "+" -> 20 [] op = "-" -> 30 [] op = "*" -> 40]

\* a-b-c was parsed to ((a-b)-c).
C5_Witness ==
    /\ pc = "expr_done"
    /\ input = <<"a", "-", "b", "-", "c">>
    /\ parsed = BinaryOpExpr("-", BinaryOpExpr("-", VariableExpr("a"),
                                               VariableExpr("b")),
                             VariableExpr("c"))

(***************************************************************************)
(* The lowering pass on its own: a caller that makes one IRGenerator and   *)
(* hands it top-level nodes of the kinds the parser produces, one call of  *)
(* generate after the other, going on after a call that raised.  last      *)
(* records the latest call: its node, its exception and the generator      *)
(* before it.                                                              *)
(***************************************************************************)
FnNames == {"foo", "bar"}

ParamLists == {<<>>, <<"a">>, <<"b">>}

One == NumebrExpr("1.0")

Bodies ==
    {One, VariableExpr("a"), VariableExpr("b"),
     CallExpr("foo", <<VariableExpr("a")>>),
     CallExpr("bar", <<BinaryOpExpr("<", One, One)>>)}

Prototypes == {Prototype(name, args) : name \in FnNames, args \in ParamLists}

Functions == {Function(proto, body) : proto \in Prototypes, body \in Bodies}

InitLower ==
    /\ pc = "session"
    /\ generator = IRGenerator
    /\ last = NoCall
    /\ input = <<>>
    /\ lexer = Lexer(input)
    /\ returned = <<>>
    /\ parsed = NoNode
    /\ error = ""
    /\ anon_counter = 0
    /\ anon_made = <<>>
    /\ history = <<>>

\* generator.generate(node), node the lookup-less call of parser.py:281
Generate(n) ==
    /\ pc = "session"
    /\ \E r \in {generate(generator, n, EmptyLookup)} :
           /\ generator' = r.G
           /\ last' = [node |-> n, exc |-> r.exc, before |-> generator]
    /\ UNCHANGED <<pc, input, lexer, returned, parsed, error, anon_counter,
                   anon_made, history>>

GenerateExtern == \E n \in Prototypes : Generate(n)

GenerateDefinition == \E n \in Functions : Generate(n)

NextLower == GenerateExtern \/ GenerateDefinition

SpecLower == InitLower /\ [][NextLower]_vars

\* The function of a name and parameter count in a generator, as a record;
\* NoNode when there is none.
Registered(G, name, num_args) ==
    LET fn == search_functions(G, name, num_args)
    IN  IF fn = 0 THEN NoNode ELSE G.module[fn]

HasBody(f) == f # NoNode /\ Len(f.blocks) > 0

\* The last call lowered a FunctionDef and got as far as its body: the function
\* had no body before the call and has one after it.
LoweredBody ==
    /\ last.node.type = "Function"
    /\ ~HasBody(Registered(last.before, last.node.proto.name,
                           Len(last.node.proto.args)))
    /\ HasBody(Registered(generator, last.node.proto.name,
                          Len(last.node.proto.args)))

\* The instructions the last call emitted for the body it lowered.
LoweredInstructions ==
    Registered(generator, last.node.proto.name, Len(last.node.proto.args)).blocks[1]

Range(seq) == {seq[i] : i \in 1..Len(seq)}

\* C3: lowering a Call that matches no registered function (by name and
\* argument count) raises an UnknownFunction CodegenError, lowers none of its
\* arguments and emits no call.
C3_UnknownFunctionRaised ==
    (/\ LoweredBody
     /\ last.node.body.type = "CallExpr"
     /\ search_functions(generator, last.node.body.callee,
                         Len(last.node.body.args)) = 0)
    => /\ last.exc = "CodegenError: Function not found"
       /\ LoweredInstructions = <<>>

RECURSIVE VariableRefs(_)
\* The names an expression refers to as variables.
VariableRefs(e) ==
    IF e.type = "VariableExpr" THEN {e.var_name}
    ELSE IF e.type = "BinaryOpExpr" THEN VariableRefs(e.lhs) \cup VariableRefs(e.rhs)
    ELSE IF e.type = "CallExpr"
         THEN UNION {VariableRefs(e.args[i]) : i \in 1..Len(e.args)}
    ELSE {}

\* C4: the parameter names of a FunctionDef's own prototype are bound while its
\* body is lowered: a body that refers only to them never ends in
\* UndefinedVariable, also when an extern declared the function before under
\* other parameter names.
C4_OwnParametersBound ==
    (/\ LoweredBody
     /\ VariableRefs(last.node.body) \subseteq Range(last.node.proto.args))
    => last.exc # "CodegenError: Undefined variable"

\* C7: a VariableRef lowers exactly when its name is a parameter of the
\* FunctionDef being lowered, and ends in UndefinedVariable otherwise; with no
\* parameters (an anonymous top-level expression) every VariableRef fails.
C7_VariableRefInScope ==
    (LoweredBody /\ last.node.body.type = "VariableExpr")
    => IF last.node.body.var_name \in Range(last.node.proto.args)
       THEN last.exc = ""
       ELSE last.exc = "CodegenError: Undefined variable"

\* A body that was opened and never closed by a ret: its lowering raised.
FailedBody(f) ==
    /\ HasBody(f)
    /\ \/ f.blocks[1] = <<>>
       \/ f.blocks[1][Len(f.blocks[1])].op # "ret"

\* The function the last call's FunctionDef names, as it was before the call.
DefinedBefore ==
    Registered(last.before, last.node.proto.name, Len(last.node.proto.args))

\* C6: once a FunctionDef of a name and parameter count was lowered, lowering
\* another one of the same name and parameter count raises the redefinition
\* CodegenError and leaves the module as it was; after an extern only (no body
\* yet) the FunctionDef is not refused and opens the body.
C6_RedefinitionRefused ==
    last.node.type = "Function" =>
        /\ HasBody(DefinedBefore) =>
               /\ last.exc = "CodegenError: Cannot redefine function"
               /\ generator.module = last.before.module
        /\ (DefinedBefore # NoNode /\ ~HasBody(DefinedBefore)) =>
               /\ last.exc # "CodegenError: Cannot redefine function"
               /\ LoweredBody

\* A second FunctionDef was refused after a first one that was lowered to its ret.
C6_Witness ==
    /\ last.node.type = "Function"
    /\ HasBody(DefinedBefore)
    /\ ~FailedBody(DefinedBefore)
    /\ last.exc = "CodegenError: Cannot redefine function"

\* C9: no rollback.  A FunctionDef whose body raised stays registered with its
\* opened body, nothing registered is ever taken back, every later FunctionDef
\* of that name and parameter count is refused as a redefinition, and a later
\* call of that name and parameter count still resolves.
C9_NoRollback ==
    /\ \A i \in 1..Len(last.before.module) :
           /\ i <= Len(generator.module)
           /\ generator.module[i].name = last.before.module[i].name
           /\ generator.module[i].args = last.before.module[i].args
           /\ Len(generator.module[i].blocks) >= Len(last.before.module[i].blocks)
    /\ last.node.type = "Function" =>
           /\ (/\ ~HasBody(DefinedBefore)
               /\ last.exc \in {"CodegenError: Undefined variable", "AttributeError"})
              => FailedBody(Registered(generator, last.node.proto.name,
                                       Len(last.node.proto.args)))
           /\ FailedBody(DefinedBefore) =>
                  last.exc = "CodegenError: Cannot redefine function"
           /\ (/\ LoweredBody
               /\ last.node.body.type = "CallExpr"
               /\ FailedBody(Registered(last.before, last.node.body.callee,
                                        Len(last.node.body.args))))
              => /\ last.exc # "AttributeError"
                 /\ last.exc = "" =>
                        \E i \in 1..Len(LoweredInstructions) :
                            /\ LoweredInstructions[i].op = "call"
                            /\ LoweredInstructions[i].callee = last.node.body.callee

\* A FunctionDef was refused because an earlier one of its name and parameter
\* count had raised in its body.
C9_Witness ==
    /\ last.node.type = "Function"
    /\ FailedBody(DefinedBefore)
    /\ last.exc = "CodegenError: Cannot redefine function"

\* A call resolved to a function whose body had raised.
C9_WitnessCall ==
    /\ LoweredBody
    /\ last.node.body.type = "CallExpr"
    /\ FailedBody(Registered(last.before, last.node.body.callee,
                             Len(last.node.body.args)))
    /\ last.exc = ""

(***************************************************************************)
(* The driver, Parser.parse, in a process that may run it several times:   *)
(* each run has its own Parser, text and IRGenerator, and all runs share   *)
(* Function.anon_counter.  A run ends at EOF or with the first exception,  *)
(* which parse does not catch.  history lists, for the current run, the    *)
(* constructs parsed and the constructs handed to generate.  The texts are *)
(* constructs joined by ";" and hold no comment.                           *)
(***************************************************************************)
MaxConstructs == 3

MaxAnon == 2

Spell(word) ==
    CASE word = "def" -> <<"d", "e", "f">>
      [] word = "extern" -> <<"e", "x", "t", "e", "r", "n">>
      [] word = "foo" -> <<"f", "o", "o">>
      [] word = "bar" -> <<"b", "a", "r">>
      [] word = "_anon0" -> <<"_", "a", "n", "o", "n", "0">>
      [] OTHER -> <<word>>

RECURSIVE Chars(_)
Chars(words) ==
    IF words = <<>> THEN <<>> ELSE Spell(Head(words)) \o Chars(Tail(words))

Constructs ==
    {Chars(<<"extern", " ", "foo", "(", "a", ")">>),
     Chars(<<"def", " ", "foo", "(", "a", ")", ":", " ", "a">>),
     Chars(<<"def", " ", "bar", "(", "a", ")", ":", " ", "bar", "(", "a", ")">>),
     Chars(<<"foo", "(", "1", ")">>),
     Chars(<<"foo", "(", "1", ",", "2", ")">>),
     Chars(<<"1", "+", "2">>),
     Chars(<<"1", "+">>),
     Chars(<<"def", " ", "_anon0", "(", ")", ":", " ", "1">>)}

RECURSIVE JoinConstructs(_)
JoinConstructs(texts) ==
    IF texts = <<>> THEN <<>>
    ELSE IF Len(texts) = 1 THEN Head(texts)
    ELSE Head(texts) \o <<";">> \o JoinConstructs(Tail(texts))

Programs == {JoinConstructs(texts) : texts \in SeqsUpTo(Constructs, MaxConstructs)}

InitDriver ==
    /\ pc = "idle"
    /\ input = <<>>
    /\ lexer = Lexer(input)
    /\ returned = <<>>
    /\ parsed = NoNode
    /\ error = ""
    /\ generator = IRGenerator
    /\ anon_counter = 0
    /\ anon_made = <<>>
    /\ last = NoCall
    /\ history = <<>>

\* Parser(fp), on a text of its own, when no run is under way
NewParser ==
    /\ pc = "idle"
    /\ anon_counter < MaxAnon
    /\ input' \in Programs
    /\ lexer' = Lexer(input')
    /\ pc' = "created"
    /\ UNCHANGED <<returned, parsed, error, generator, anon_counter, anon_made,
                   last, history>>

\* parse has returned (parser.py:282) or raised: its Parser and its generator
\* are gone, the class attribute anon_counter stays.
ParseExit ==
    /\ pc \in {"done", "raised"}
    /\ pc' = "idle"
    /\ input' = <<>>
    /\ lexer' = Lexer(input')
    /\ parsed' = NoNode
    /\ error' = ""
    /\ generator' = IRGenerator
    /\ last' = NoCall
    /\ history' = <<>>
    /\ UNCHANGED <<returned, anon_counter, anon_made>>

\* parser.py:265-266
ParseBegin ==
    /\ pc = "created"
    /\ \E t \in {ParserNextToken(lexer)} :
           /\ lexer' = t.L
           /\ error' = t.exc
           /\ pc' = IF t.exc # "" THEN "raised" ELSE "loop"
    /\ generator' = IRGenerator
    /\ UNCHANGED <<input, returned, parsed, anon_counter, anon_made, last, history>>

\* parser.py:269-270; reading .type of a missing token raises
AtEOF(L) == L.current_token # NoToken /\ L.current_token.type = "EOF"

LoopBreak ==
    /\ pc = "loop"
    /\ AtEOF(lexer)
    /\ pc' = "done"
    /\ UNCHANGED <<input, lexer, returned, parsed, error, generator, anon_counter,
                   anon_made, last, history>>

\* parser.py:275-277
LoopSkipSemicolon ==
    /\ pc = "loop"
    /\ ~AtEOF(lexer)
    /\ lexer.current_token # NoToken
    /\ lexer.current_token.type \notin {"DEF", "EXTERN"}
    /\ CurTokIs(lexer, ";")
    /\ \E t \in {ParserNextToken(lexer)} :
           /\ lexer' = t.L
           /\ error' = t.exc
           /\ pc' = IF t.exc # "" THEN "raised" ELSE "loop"
    /\ UNCHANGED <<input, returned, parsed, generator, anon_counter, anon_made,
                   last, history>>

\* The branch of parser.py:271-279 that makes a node: the method called, by the
\* current token.
ConstructKind(L) ==
    IF L.current_token.type = "DEF" THEN "definition"
    ELSE IF L.current_token.type = "EXTERN" THEN "extern"
    ELSE "expression"

\* node = ... of parser.py:271-279: [L, exc, val, anon_counter]
ParseConstruct(L, counter) ==
    IF L.current_token = NoToken
    THEN WithCounter(Raise(L, "AttributeError"), counter)
    ELSE IF ConstructKind(L) = "definition"
         THEN WithCounter(_parse_definition(L), counter)
    ELSE IF ConstructKind(L) = "extern"
         THEN WithCounter(_parse_extern(L), counter)
    ELSE _parse_top_level_expr(L, counter)

LoopParse ==
    /\ pc = "loop"
    /\ ~AtEOF(lexer)
    /\ lexer.current_token = NoToken
          \/ lexer.current_token.type \in {"DEF", "EXTERN"}
          \/ ~CurTokIs(lexer, ";")
    /\ \E r \in {ParseConstruct(lexer, anon_counter)} :
           /\ lexer' = r.L
           /\ error' = r.exc
           /\ parsed' = r.val
           /\ anon_counter' = r.anon_counter
           /\ anon_made' = IF r.exc = "" /\ lexer.current_token # NoToken
                                         /\ ConstructKind(lexer) = "expression"
                           THEN Append(anon_made, r.val.proto.name)
                           ELSE anon_made
           /\ history' = IF r.exc = ""
                         THEN Append(history, [event |-> "parsed", node |-> r.val,
                                               exc |-> ""])
                         ELSE history
           /\ pc' = IF r.exc # "" THEN "raised" ELSE "lower"
    /\ UNCHANGED <<input, returned, generator, last>>

\* parser.py:281
LoopGenerate ==
    /\ pc = "lower"
    /\ \E r \in {generate(generator, parsed, EmptyLookup)} :
           /\ generator' = r.G
           /\ error' = r.exc
           /\ last' = [node |-> parsed, exc |-> r.exc, before |-> generator]
           /\ history' = Append(history, [event |-> "lowered", node |-> parsed,
                                          exc |-> r.exc])
           /\ pc' = IF r.exc # "" THEN "raised" ELSE "loop"
    /\ UNCHANGED <<input, lexer, returned, parsed, anon_counter, anon_made>>

NextDriver ==
    \/ NewParser
    \/ ParseExit
    \/ ParseBegin
    \/ LoopBreak
    \/ LoopSkipSemicolon
    \/ LoopParse
    \/ LoopGenerate

SpecDriver == InitDriver /\ [][NextDriver]_vars

RECURSIVE Split(_, _)
\* The constructs of a text, the pieces between its ";", given the piece begun.
Split(chars, piece) ==
    IF chars = <<>> THEN <<piece>>
    ELSE IF Head(chars) = ";" THEN <<piece>> \o Split(Tail(chars), <<>>)
    ELSE Split(Tail(chars), Append(piece, Head(chars)))

ConstructTexts == IF input = <<>> THEN <<>> ELSE Split(input, <<>>)

\* A construct parsed as a text of its own.
ParseAlone(text) == ParseConstruct(ParserNextToken(Lexer(text)).L, 0)

TextKind(text) == ConstructKind(ParserNextToken(Lexer(text)).L)

\* A node is the construct a text spells; an anonymous wrapper is known by its
\* body, its name being the counter's.
SameConstruct(n, text) ==
    LET alone == ParseAlone(text)
    IN  /\ alone.exc = ""
        /\ IF TextKind(text) = "expression"
           THEN n.type = "Function" /\ n.proto.args = <<>> /\ n.body = alone.val.body
           ELSE n = alone.val

\* The name and parameter count a construct declares or defines.
Declared(text) ==
    LET alone == ParseAlone(text)
    IN  IF alone.exc # "" THEN {}
        ELSE IF alone.val.type = "Prototype"
             THEN {<<alone.val.name, Len(alone.val.args)>>}
        ELSE {<<alone.val.proto.name, Len(alone.val.proto.args)>>}

DeclaredUpTo(k) == UNION {Declared(ConstructTexts[j]) : j \in 1..k}

RECURSIVE CallsOf(_)
\* The (callee, argument count) pairs of the calls in a node.
CallsOf(e) ==
    IF e.type = "Function" THEN CallsOf(e.body)
    ELSE IF e.type = "BinaryOpExpr" THEN CallsOf(e.lhs) \cup CallsOf(e.rhs)
    ELSE IF e.type = "CallExpr"
         THEN {<<e.callee, Len(e.args)>>}
                  \cup UNION {CallsOf(e.args[i]) : i \in 1..Len(e.args)}
    ELSE {}

\* The (callee, argument count) pairs of the call instructions in the module.
EmittedCalls ==
    {<<instr.callee, Len(instr.args)>> :
        instr \in {i \in UNION {Range(b) : b \in UNION {Range(f.blocks) :
                                       f \in Range(generator.module)}} :
                      i.op = "call"}}

\* C8: Parser.parse lowers the constructs in textual order, each after it was
\* parsed and before the next one is parsed; so a call lowers only to a function
\* that an earlier construct, or the one being lowered, declared or defined with
\* that name and argument count, and a call to a function of a later construct
\* fails.
C8_LoweredInTextualOrder ==
    LET n == Len(history)
    IN  /\ \A i \in 1..n :
               history[i].event = IF i % 2 = 1 THEN "parsed" ELSE "lowered"
        /\ \A i \in 1..n : i % 2 = 0 => history[i].node = history[i - 1].node
        /\ (pc = "lower") <=> (n % 2 = 1)
        /\ \A i \in 1..n :
               i % 2 = 1 =>
                   /\ (i + 1) \div 2 <= Len(ConstructTexts)
                   /\ SameConstruct(history[i].node, ConstructTexts[(i + 1) \div 2])
        /\ \A i \in 1..n :
               (history[i].event = "lowered" /\ history[i].exc = "") =>
                   CallsOf(history[i].node) \subseteq DeclaredUpTo(i \div 2)
        /\ EmittedCalls \subseteq DeclaredUpTo(n \div 2)

\* def foo(a): a;foo(1) was parsed and lowered to its end: the call of the second
\* construct resolved to the function of the first.
C8_Witness ==
    /\ pc = "done"
    /\ input = Chars(<<"def", " ", "foo", "(", "a", ")", ":", " ", "a", ";",
                       "foo", "(", "1", ")">>)
    /\ Len(history) = 4
    /\ EmittedCalls = {<<"foo", 1>>}

\* foo(1);def foo(a): a ended with the call: foo is defined by a later construct.
C8_WitnessForward ==
    /\ pc = "raised"
    /\ input = Chars(<<"foo", "(", "1", ")", ";",
                       "def", " ", "foo", "(", "a", ")", ":", " ", "a">>)
    /\ Len(history) = 2
    /\ history[2].exc # ""

AnonNames == {"_anon" \o Decimal(k) : k \in 0..(MaxAnon + MaxConstructs)}

\* C10: the k-th top-level expression parsed (from 0) is wrapped in _anon<k>
\* with no parameters, one that fails to parse takes no counter value, the
\* anonymous names differ from each other and from every name of a def or
\* extern, and lowering an anonymous function is never refused as a
\* redefinition.
C10_AnonymousNames ==
    /\ anon_counter = Len(anon_made)
    /\ \A k \in 1..Len(anon_made) : anon_made[k] = "_anon" \o Decimal(k - 1)
    /\ \A j, k \in 1..Len(anon_made) : j # k => anon_made[j] # anon_made[k]
    /\ \A i \in 1..Len(history) :
           IF TextKind(ConstructTexts[(i + 1) \div 2]) = "expression"
           THEN /\ history[i].node.type = "Function"
                /\ history[i].node.proto.args = <<>>
                /\ history[i].node.proto.name \in Range(anon_made)
           ELSE Declared(ConstructTexts[(i + 1) \div 2]) \cap
                    {<<name, k>> : name \in AnonNames, k \in 0..2} = {}
    /\ (last.node.type = "Function" /\ last.node.proto.name \in Range(anon_made))
           => last.exc \notin {"CodegenError: Cannot redefine function",
                               "DuplicatedNameError"}

\* After two top-level expressions were wrapped as _anon0 and _anon1, a third one
\* failed to parse and the counter stayed at 2.
C10_Witness ==
    /\ pc = "raised"
    /\ error = "ParseError"
    /\ input = Chars(<<"1", "+", "2", ";", "1", "+", "2", ";", "1", "+">>)
    /\ anon_made = <<"_anon0", "_anon1">>
    /\ anon_counter = 2

====
